---------------------------- MODULE Spec2Model ----------------------------
(* Model of mc-cauldron-brew (LiquidData, FungalAutomaton, math) and of   *)
(* the breadth-first solver of mc-cauldron-bruteforce (main).             *)
EXTENDS Integers, Sequences, FiniteSets, TLC

VARIABLES
    prev, act, ld, rep,            \* a cauldron: last input, last action, liquid data, repeat count
    self, current, next, result, gen, apc,  \* apply_automaton: receiver, the two generations, result,
                                            \* generations computed so far, position
    solutions, queue, next_queue,  \* main: table, frontier, next frontier,
    cursor, line, summary, pc,     \* place in the table while writing, last line written, printed summary, position
    rounds,                        \* rounds of the while loop completed so far
    input, input_path, called, output  \* one call of a function: its argument (a u16 value or a path), its name, what it returned

cauldronVars == <<prev, act, ld, rep>>
autoVars     == <<self, current, next, result, gen, apc>>
solverVars   == <<solutions, queue, next_queue, cursor, line, summary, pc, rounds>>
unitVars     == <<input, input_path, called, output>>
vars == <<prev, act, ld, rep, self, current, next, result, gen, apc,
          solutions, queue, next_queue, cursor, line, summary, pc, rounds,
          input, input_path, called, output>>

-----------------------------------------------------------------------------
(* u16 arithmetic *)

U16Bits == 16
U16 == 2^U16Bits

Bit(v, i) == (v \div 2^i) % 2 = 1

\* a << n on u16: bits shifted past bit 15 are lost
Shl(a, n) == (a * 2^n) % U16

\* !a on u16
Not(a) == (U16 - 1) - a

\* a & b on u16, bit by bit from the lowest
RECURSIVE And(_, _)
And(a, b) ==
    IF a = 0 \/ b = 0 THEN 0
    ELSE (IF a % 2 = 1 /\ b % 2 = 1 THEN 1 ELSE 0) + 2 * And(a \div 2, b \div 2)

\* a | b on u16, bit by bit from the lowest
RECURSIVE Or(_, _)
Or(a, b) ==
    IF a = 0 THEN b
    ELSE IF b = 0 THEN a
    ELSE (IF a % 2 = 1 \/ b % 2 = 1 THEN 1 ELSE 0) + 2 * Or(a \div 2, b \div 2)

RECURSIVE leading_zeros_from(_, _)
leading_zeros_from(v, i) ==
    IF i < 0 THEN 0
    ELSE IF Bit(v, i) THEN 0 ELSE 1 + leading_zeros_from(v, i - 1)

\* u16::leading_zeros
leading_zeros(v) == leading_zeros_from(v, U16Bits - 1)

-----------------------------------------------------------------------------
(* PotionIngredient *)

PotionIngredient ==
    {"Sugar", "GhastTear", "SpiderEye", "FermentedSpiderEye", "BlazePowder", "MagmaCream"}

added_bits(ingredient) ==
    CASE ingredient = "Sugar"              -> <<0>>
      [] ingredient = "GhastTear"          -> <<11>>
      [] ingredient = "SpiderEye"          -> <<5, 7, 10>>
      [] ingredient = "FermentedSpiderEye" -> <<9, 14>>
      [] ingredient = "BlazePowder"        -> <<14>>
      [] ingredient = "MagmaCream"         -> <<1, 6, 14>>

-----------------------------------------------------------------------------
(* math *)

\* Mutant: zero is given position 0 in place of -1
first_set_no_sentinel(v) == IF v = 0 THEN 0 ELSE 15 - leading_zeros(v)

first_set(v) == 15 - leading_zeros(v)

-----------------------------------------------------------------------------
(* fungal *)

Cells == 15

\* isize::rem_euclid
rem_euclid(a, n) == ((a % n) + n) % n

\* Mutant: the absolute value of the index is reduced (index.abs() % 15)
WrapIndex_abs(index) == (IF index < 0 THEN -index ELSE index) % Cells

\* WrappingArr::index / index_mut
WrapIndex(index) == rem_euclid(index, Cells)

\* Mutant: a default with cells 0 and 2 set
FungalDefault_pattern == [i \in 0..(Cells - 1) |-> i \in {0, 2}]

FungalDefault == [i \in 0..(Cells - 1) |-> FALSE]

\* Mutant: the masked value is compared with 1 (v & (1 << i) == 1)
FungalAutomaton_new_eq_one(v) == [i \in 0..(Cells - 1) |-> And(v, Shl(1, i)) = 1]

FungalAutomaton_new(v) == [i \in 0..(Cells - 1) |-> And(v, Shl(1, i)) # 0]

\* Mutant: a clear cell is set when either neighbour is set (|| for &&)
FungalAutomaton_next_or(c) ==
    [i \in 0..(Cells - 1) |->
        IF c[WrapIndex(i)]
        THEN (c[WrapIndex(i + 1)] \/ ~c[WrapIndex(i + 2)])
             /\ (c[WrapIndex(i - 1)] \/ ~c[WrapIndex(i - 2)])
        ELSE c[WrapIndex(i - 1)] \/ c[WrapIndex(i + 1)]]

FungalAutomaton_next(c) ==
    [i \in 0..(Cells - 1) |->
        IF c[WrapIndex(i)]
        THEN (c[WrapIndex(i + 1)] \/ ~c[WrapIndex(i + 2)])
             /\ (c[WrapIndex(i - 1)] \/ ~c[WrapIndex(i - 2)])
        ELSE c[WrapIndex(i - 1)] /\ c[WrapIndex(i + 1)]]

RECURSIVE into_from(_, _)
into_from(c, i) ==
    IF i = Cells THEN 0
    ELSE Or(IF c[WrapIndex(i)] THEN Shl(1, i) ELSE 0, into_from(c, i + 1))

FungalAutomaton_into(c) == into_from(c, 0)

-----------------------------------------------------------------------------
(* LiquidData *)

LiquidDefault == 0

RECURSIVE apply_bits(_, _, _)
apply_bits(res, bits, k) ==
    IF k > Len(bits) THEN res
    ELSE apply_bits(Or(res, Shl(1, bits[k])), bits, k + 1)

\* Mutant: res.0 += 1 << bit, wrapping, in place of |=
RECURSIVE apply_bits_add(_, _, _)
apply_bits_add(res, bits, k) ==
    IF k > Len(bits) THEN res
    ELSE apply_bits_add((res + Shl(1, bits[k])) % U16, bits, k + 1)

apply_ingredient_add(s, ingredient) == apply_bits_add(s, added_bits(ingredient), 1)

\* Mutant: res.0 ^= 1 << bit in place of |=
RECURSIVE apply_bits_xor(_, _, _)
apply_bits_xor(res, bits, k) ==
    IF k > Len(bits) THEN res
    ELSE apply_bits_xor(IF And(res, Shl(1, bits[k])) # 0
                        THEN res - Shl(1, bits[k])
                        ELSE res + Shl(1, bits[k]), bits, k + 1)

apply_ingredient_xor(s, ingredient) == apply_bits_xor(s, added_bits(ingredient), 1)

apply_ingredient(s, ingredient) == apply_bits(s, added_bits(ingredient), 1)

DiluteMask ==
    Or(Shl(1, 1), Or(Shl(1, 3), Or(Shl(1, 5), Or(Shl(1, 7),
       Or(Shl(1, 9), Or(Shl(1, 11), Shl(1, 13)))))))

\* Mutant: the mask stops at bit 11
dilute_short_mask(s) ==
    And(s, Not(Or(Shl(1, 1), Or(Shl(1, 3), Or(Shl(1, 5), Or(Shl(1, 7),
                  Or(Shl(1, 9), Shl(1, 11))))))))

\* Mutant: the mask is applied without the ! (only the odd bits are kept)
dilute_no_not(s) == And(s, DiluteMask)

\* Mutant: the value is shifted right before the mask is applied
dilute_after_shift(s) == And(s \div 2, Not(DiluteMask))

dilute(s) == And(s, Not(DiluteMask))

\* Mutant: the top bit is not cleared before the shift
apply_wart_stage_1_keep_top(s) ==
    IF And(s, 1) = 0 THEN s
    ELSE LET fs == first_set(s) IN
         IF fs < 2 \/ And(s, Shl(1, fs - 1)) # 0 THEN s
         ELSE Or(Shl(s, 1), Shl(3, fs - 1))

\* Mutant: the pair 11 is placed one position too high (0b11 << first_set)
apply_wart_stage_1_pair_high(s) ==
    IF And(s, 1) = 0 THEN s
    ELSE LET fs == first_set(s) IN
         IF fs < 2 \/ And(s, Shl(1, fs - 1)) # 0 THEN s
         ELSE LET res1 == And(s, Not(Shl(1, fs)))
                  res2 == Shl(res1, 1)
              IN  Or(res2, Shl(3, fs))

\* Mutant: the test below the top bit reads (1 << first_set) - 1
apply_wart_stage_1_precedence(s) ==
    IF And(s, 1) = 0 THEN s
    ELSE LET fs == first_set(s) IN
         IF fs < 2 \/ And(s, Shl(1, fs) - 1) # 0 THEN s
         ELSE LET res1 == And(s, Not(Shl(1, fs)))
                  res2 == Shl(res1, 1)
              IN  Or(res2, Shl(3, fs - 1))

apply_wart_stage_1(s) ==
    IF And(s, 1) = 0 THEN s
    ELSE LET fs == first_set(s) IN
         IF fs < 2 \/ And(s, Shl(1, fs - 1)) # 0 THEN s
         ELSE LET res1 == And(s, Not(Shl(1, fs)))
                  res2 == Shl(res1, 1)
              IN  Or(res2, Shl(3, fs - 1))

without_leading_bits(s) ==
    LET fs == first_set(s) IN
    IF fs >= 0 THEN And(s, Not(Shl(1, fs))) ELSE s

RECURSIVE automaton_loop(_, _)
automaton_loop(cur, nxt) ==
    IF cur # nxt THEN automaton_loop(nxt, FungalAutomaton_next(nxt))
    ELSE cur

\* Mutant: the removed bit is not added back
add_leading_bit_dropped(fs, evolved) == evolved

add_leading_bit(fs, evolved) ==
    IF fs >= 0 THEN Or(evolved, Shl(1, fs)) ELSE evolved

apply_automaton(s) ==
    LET evolved == FungalAutomaton_into(
                       automaton_loop(FungalDefault,
                                      FungalAutomaton_new(without_leading_bits(s))))
    IN  add_leading_bit(first_set(s), evolved)

apply_wart(s) == apply_automaton(apply_wart_stage_1(s))

-----------------------------------------------------------------------------
(* Action *)

\* Mutant: SpiderEye and FermentedSpiderEye listed in the other order
ALL_ACTIONS_swapped ==
    <<"Sugar", "GhastTear", "FermentedSpiderEye", "SpiderEye",
      "BlazePowder", "MagmaCream", "Dilute", "AddNetherWart">>

ALL_ACTIONS ==
    <<"Sugar", "GhastTear", "SpiderEye", "FermentedSpiderEye",
      "BlazePowder", "MagmaCream", "Dilute", "AddNetherWart">>

Action == PotionIngredient \cup {"Dilute", "AddNetherWart"}

apply_to(a, s) ==
    CASE a \in PotionIngredient -> apply_ingredient(s, a)
      [] a = "Dilute"           -> dilute(s)
      [] a = "AddNetherWart"    -> apply_wart(s)

-----------------------------------------------------------------------------
(* A cauldron holding any liquid data, to which actions are applied one     *)
(* after another (the pure transitions of LiquidData, on every u16 value    *)
(* below 2^15).                                                              *)

StateCount == 32768
LiquidStates == 0..(StateCount - 1)

IdleCauldron == /\ prev = 0
                /\ act = "None"
                /\ ld = 0
                /\ rep = 0

IdleAutomaton == /\ self = 0
                 /\ current = FungalDefault
                 /\ next = FungalDefault
                 /\ result = 0
                 /\ gen = 0
                 /\ apc = "idle"

IdleSolver == /\ solutions = <<>>
              /\ queue = <<>>
              /\ next_queue = <<>>
              /\ cursor = 0
              /\ line = <<>>
              /\ summary = <<>>
              /\ pc = "idle"
              /\ rounds = 0

IdleUnit == /\ input = 0
            /\ input_path = <<>>
            /\ called = "none"
            /\ output = <<>>

CauldronInit ==
    /\ ld \in LiquidStates
    /\ prev = ld
    /\ act = "None"
    /\ rep = 0
    /\ IdleAutomaton
    /\ IdleSolver
    /\ IdleUnit

Apply(a) ==
    /\ prev' = ld
    /\ act' = a
    /\ ld' = apply_to(a, ld)
    /\ rep' = IF act = a THEN 2 ELSE 1
    /\ UNCHANGED <<autoVars, solverVars, unitVars>>

AddIngredient == \E i \in PotionIngredient : Apply(i)

Dilute == Apply("Dilute")

AddNetherWart == Apply("AddNetherWart")

CauldronNext == AddIngredient \/ Dilute \/ AddNetherWart

CauldronSpec == CauldronInit /\ [][CauldronNext]_vars

-----------------------------------------------------------------------------
(* main: the breadth-first search *)

\* solutions: Vec<Option<Vec<Action>>> of 32768 entries, as the function from
\* the indices whose entry is Some to the paths; an index of 0..32767 outside
\* its domain holds None
NoSolutions == <<>>

\* solutions[s as usize].is_none()
is_none(table, s) == s \notin DOMAIN table

\* solutions[s as usize] = Some(actions)
Store(table, s, actions) ==
    IF s \in DOMAIN table THEN [table EXCEPT ![s] = actions]
    ELSE (s :> actions) @@ table

Init ==
    /\ solutions = Store(NoSolutions, LiquidDefault, <<>>)
    /\ queue = << <<(<<>>), LiquidDefault>> >>
    /\ next_queue = <<>>
    /\ cursor = 0
    /\ line = <<>>
    /\ summary = <<>>
    /\ pc = "while"
    /\ rounds = 0
    /\ IdleCauldron
    /\ IdleAutomaton
    /\ IdleUnit

\* Mutant: the previous state is queued in place of the new one
TryAction_requeue_prev(st, prev_actions, prev_state, action) ==
    LET state == apply_to(action, prev_state) IN
    IF state \notin LiquidStates
    THEN [st EXCEPT !.panicked = TRUE]
    ELSE IF is_none(st.solutions, state)
    THEN LET actions == Append(prev_actions, action) IN
         [st EXCEPT !.next_queue = Append(st.next_queue, <<actions, prev_state>>),
                    !.solutions = Store(st.solutions, state, actions)]
    ELSE st

\* Mutant: the action is put in front of the path (insert(0, ..) for push)
TryAction_prepend(st, prev_actions, prev_state, action) ==
    LET state == apply_to(action, prev_state) IN
    IF state \notin LiquidStates
    THEN [st EXCEPT !.panicked = TRUE]
    ELSE IF is_none(st.solutions, state)
    THEN LET actions == <<action>> \o prev_actions IN
         [st EXCEPT !.next_queue = Append(st.next_queue, <<actions, state>>),
                    !.solutions = Store(st.solutions, state, actions)]
    ELSE st

\* Mutant: the path is queued before the action is pushed onto it
TryAction_queue_prev_path(st, prev_actions, prev_state, action) ==
    LET state == apply_to(action, prev_state) IN
    IF state \notin LiquidStates
    THEN [st EXCEPT !.panicked = TRUE]
    ELSE IF is_none(st.solutions, state)
    THEN LET actions == Append(prev_actions, action) IN
         [st EXCEPT !.next_queue = Append(st.next_queue, <<prev_actions, state>>),
                    !.solutions = Store(st.solutions, state, actions)]
    ELSE st

\* Mutant: the entry is written and the state queued without the is_none test
TryAction_always(st, prev_actions, prev_state, action) ==
    LET state == apply_to(action, prev_state) IN
    IF state \notin LiquidStates
    THEN [st EXCEPT !.panicked = TRUE]
    ELSE LET actions == Append(prev_actions, action) IN
         [st EXCEPT !.next_queue = Append(st.next_queue, <<actions, state>>),
                    !.solutions = Store(st.solutions, state, actions)]

\* the body of `for action in ALL_ACTIONS.iter()`, on the table and the next
\* queue built so far (indexing solutions past its end panics)
TryAction(st, prev_actions, prev_state, action) ==
    LET state == apply_to(action, prev_state) IN
    IF state \notin LiquidStates
    THEN [st EXCEPT !.panicked = TRUE]
    ELSE IF is_none(st.solutions, state)
    THEN LET actions == Append(prev_actions, action) IN
         [st EXCEPT !.next_queue = Append(st.next_queue, <<actions, state>>),
                    !.solutions = Store(st.solutions, state, actions)]
    ELSE st

\* Mutant: prev_actions is pushed to without being cloned, so an action that
\* led to a new state stays in the path of the actions tried after it
RECURSIVE ForActions_no_clone(_, _, _, _)
ForActions_no_clone(st, prev_actions, prev_state, k) ==
    IF k > Len(ALL_ACTIONS) \/ st.panicked THEN st
    ELSE LET state == apply_to(ALL_ACTIONS[k], prev_state)
             fresh == state \in LiquidStates /\ is_none(st.solutions, state)
         IN  ForActions_no_clone(
                 TryAction(st, prev_actions, prev_state, ALL_ACTIONS[k]),
                 IF fresh THEN Append(prev_actions, ALL_ACTIONS[k]) ELSE prev_actions,
                 prev_state, k + 1)

\* for action in ALL_ACTIONS.iter(), from the k-th action on
RECURSIVE ForActions(_, _, _, _)
ForActions(st, prev_actions, prev_state, k) ==
    IF k > Len(ALL_ACTIONS) \/ st.panicked THEN st
    ELSE ForActions(TryAction(st, prev_actions, prev_state, ALL_ACTIONS[k]),
                    prev_actions, prev_state, k + 1)

\* for (prev_actions, prev_state) in queue.into_iter(): the elements lo..hi of
\* the queue, in order (the first half, then the second, which keeps the
\* evaluation shallow)
RECURSIVE ForRange(_, _, _, _)
ForRange(st, q, lo, hi) ==
    IF lo > hi \/ st.panicked THEN st
    ELSE IF lo = hi THEN ForActions(st, q[lo][1], q[lo][2], 1)
    ELSE ForRange(ForRange(st, q, lo, (lo + hi) \div 2), q, (lo + hi) \div 2 + 1, hi)

\* Mutant: the queue that was iterated is handed on as the next queue
ForQueue_keep(st, q) == [ForRange(st, q, 1, Len(q)) EXCEPT !.next_queue = q]

ForQueue(st, q) == ForRange(st, q, 1, Len(q))

\* one round: the body of `while !queue.is_empty()`, from the new next_queue
\* through the for loop over the queue to `queue = next_queue`
Round ==
    /\ pc = "while"
    /\ queue # <<>>
    /\ LET st == ForQueue([solutions |-> solutions, next_queue |-> <<>>,
                           panicked |-> FALSE], queue)
       IN  /\ solutions' = st.solutions
           /\ next_queue' = st.next_queue
           /\ queue' = IF st.panicked THEN <<>> ELSE st.next_queue
           /\ pc' = IF st.panicked THEN "panic" ELSE "while"
           /\ rounds' = IF st.panicked THEN rounds ELSE rounds + 1
    /\ UNCHANGED <<cursor, line, summary, cauldronVars, autoVars, unitVars>>

\* the condition of the while fails: the search is over
WhileExit ==
    /\ pc = "while"
    /\ queue = <<>>
    /\ pc' = "write"
    /\ UNCHANGED <<solutions, queue, next_queue, cursor, line, summary,
                   rounds, cauldronVars, autoVars, unitVars>>

\* while !queue.is_empty(): the condition holds
While ==
    /\ pc = "while"
    /\ queue # <<>>
    /\ pc' = "new"
    /\ UNCHANGED <<solutions, queue, next_queue, cursor, line, summary,
                   rounds, cauldronVars, autoVars, unitVars>>

\* let mut next_queue = VecDeque::new();
NewNextQueue ==
    /\ pc = "new"
    /\ next_queue' = <<>>
    /\ pc' = "for"
    /\ UNCHANGED <<solutions, queue, cursor, line, summary, rounds, cauldronVars, autoVars, unitVars>>

\* one iteration of `for (prev_actions, prev_state) in queue.into_iter()`
Expand ==
    /\ pc = "for"
    /\ LET st == ForActions([solutions |-> solutions, next_queue |-> next_queue,
                             panicked |-> FALSE], Head(queue)[1], Head(queue)[2], 1)
       IN  /\ solutions' = st.solutions
           /\ next_queue' = st.next_queue
           /\ pc' = IF st.panicked THEN "panic"
                    ELSE IF Tail(queue) = <<>> THEN "assign" ELSE "for"
    /\ queue' = Tail(queue)
    /\ UNCHANGED <<cursor, line, summary, rounds, cauldronVars, autoVars, unitVars>>

\* queue = next_queue;
AssignQueue ==
    /\ pc = "assign"
    /\ queue' = next_queue
    /\ pc' = "while"
    /\ rounds' = rounds + 1
    /\ UNCHANGED <<solutions, next_queue, cursor, line, summary, cauldronVars, autoVars, unitVars>>

-----------------------------------------------------------------------------
(* main: the results file and the summary (the I/O calls are taken to succeed) *)

\* Mutant: SpiderEye is given the code of Sugar
ActionCode_same_initial(a) ==
    CASE a = "Sugar"              -> "S"
      [] a = "GhastTear"          -> "G"
      [] a = "SpiderEye"          -> "S"
      [] a = "FermentedSpiderEye" -> "F"
      [] a = "BlazePowder"        -> "B"
      [] a = "MagmaCream"         -> "C"
      [] a = "Dilute"             -> "W"
      [] a = "AddNetherWart"      -> "N"

ActionCode(a) ==
    CASE a = "Sugar"              -> "S"
      [] a = "GhastTear"          -> "G"
      [] a = "SpiderEye"          -> "E"
      [] a = "FermentedSpiderEye" -> "F"
      [] a = "BlazePowder"        -> "B"
      [] a = "MagmaCream"         -> "C"
      [] a = "Dilute"             -> "W"
      [] a = "AddNetherWart"      -> "N"

\* the joined names, as the sequence of their characters
format_actions(actions) == [k \in 1..Len(actions) |-> ActionCode(actions[k])]

\* the filter_map of the enumeration: the first index of lo..hi whose entry is
\* Some, StateCount when none is (searched by halves, leftmost first)
RECURSIVE FirstSome(_, _, _)
FirstSome(table, lo, hi) ==
    IF lo > hi THEN StateCount
    ELSE IF lo = hi THEN (IF is_none(table, lo) THEN StateCount ELSE lo)
    ELSE LET left == FirstSome(table, lo, (lo + hi) \div 2)
         IN  IF left < StateCount THEN left
             ELSE FirstSome(table, (lo + hi) \div 2 + 1, hi)

NextSome(table, i) == FirstSome(table, i, StateCount - 1)

\* .filter_map(|s| s.as_ref()).map(|s| s.len()).max() over the entries lo..hi:
\* None when no entry is Some, else the greatest length (folded by halves)
RECURSIVE MaxLen(_, _, _)
MaxLen(table, lo, hi) ==
    IF lo > hi THEN -1
    ELSE IF lo = hi THEN (IF is_none(table, lo) THEN -1 ELSE Len(table[lo]))
    ELSE LET l == MaxLen(table, lo, (lo + hi) \div 2)
             r == MaxLen(table, (lo + hi) \div 2 + 1, hi)
         IN  IF l >= r THEN l ELSE r

\* File::create("results.txt")
Create ==
    /\ pc = "write"
    /\ cursor' = 0
    /\ pc' = "writing"
    /\ UNCHANGED <<solutions, queue, next_queue, line, summary, rounds, cauldronVars, autoVars, unitVars>>

\* writeln!(writer, "{:05}, {}", i, format_actions(actions)) for the next Some entry
WriteLine ==
    /\ pc = "writing"
    /\ LET i == NextSome(solutions, cursor) IN
       /\ i < StateCount
       /\ line' = [index |-> i, text |-> format_actions(solutions[i])]
       /\ cursor' = i + 1
    /\ UNCHANGED <<solutions, queue, next_queue, summary, pc, rounds, cauldronVars, autoVars, unitVars>>

\* the entries are exhausted: writer.sync_all()
SyncAll ==
    /\ pc = "writing"
    /\ NextSome(solutions, cursor) = StateCount
    /\ cursor' = StateCount
    /\ pc' = "summary"
    /\ UNCHANGED <<solutions, queue, next_queue, line, summary, rounds, cauldronVars, autoVars, unitVars>>

\* println!("found {} solutions, at most {} steps long", ..)
Summary ==
    /\ pc = "summary"
    /\ LET longest == MaxLen(solutions, 0, StateCount - 1) IN
       IF longest < 0   \* .expect("There should be some answers")
       THEN /\ pc' = "panic"
            /\ UNCHANGED summary
       ELSE /\ summary' = [found |-> Cardinality(DOMAIN solutions), longest |-> longest]
            /\ pc' = "done"
    /\ UNCHANGED <<solutions, queue, next_queue, cursor, line, rounds, cauldronVars, autoVars, unitVars>>

\* main, one round of the search per step
Next == Round \/ WhileExit \/ Create \/ WriteLine \/ SyncAll \/ Summary

Spec == Init /\ [][Next]_vars

\* the search alone, one statement of the loop and one element of the queue per step
StepNext == While \/ NewNextQueue \/ Expand \/ AssignQueue \/ WhileExit

StepSpec == Init /\ [][StepNext]_vars

-----------------------------------------------------------------------------
(* Properties of the search *)

\* the state a sequence of actions leads to from s
RECURSIVE ReplayFrom(_, _, _)
ReplayFrom(s, path, k) ==
    IF k > Len(path) THEN s
    ELSE ReplayFrom(apply_to(path[k], s), path, k + 1)

Replay(path) == ReplayFrom(LiquidDefault, path, 1)

\* the graph distance from zero, level by level: the states at distance 0,
\* those at distance 1, ... over the 8 actions, until a level adds nothing
RECURSIVE Levels(_, _)
Levels(seen, frontier) ==
    IF frontier = {} THEN <<>>
    ELSE LET reached == {apply_to(a, s) : s \in frontier, a \in Action} \ seen
         IN  <<frontier>> \o Levels(seen \cup reached, reached)

DistanceLevels == Levels({LiquidDefault}, {LiquidDefault})

Reachable == UNION {DistanceLevels[k] : k \in 1..Len(DistanceLevels)}

\* the search is over: the loop has just been left
Searched == pc = "write"

\* the search is between two rounds, or over
RoundEnd == pc \in {"while", "write"}

\* C1: when the search has finished (and already at the end of every round),
\* a state whose entry is a path of length L is reached by no sequence of
\* fewer than L actions: L is at most the state's distance from zero.
C1_Minimality ==
    RoundEnd =>
        \A k \in 1..Len(DistanceLevels) : \A s \in DistanceLevels[k] :
            ~is_none(solutions, s) => Len(solutions[s]) <= k - 1

\* the search has finished and the farthest state has its path of 25 actions
C1_Witness ==
    /\ Searched
    /\ ~is_none(solutions, 23329)
    /\ Len(solutions[23329]) = 25

\* C2: when the search has finished, the entry of a state is set exactly when
\* some sequence of the 8 actions (the empty one included) leads from zero to
\* it.
C2_Completeness ==
    Searched =>
        \A s \in LiquidStates : ~is_none(solutions, s) <=> s \in Reachable

\* the search has finished with state 2 left unset and state 32767 set
C2_Witness ==
    /\ Searched
    /\ is_none(solutions, 2)
    /\ ~is_none(solutions, 32767)

\* C3: at every point of the search the recorded path of a state leads from
\* zero to that state, and the entry of state 0 is the empty path: so it is
\* at the start, and every entry that a step writes or changes replays to
\* its state.
C3_PathSoundness ==
    /\ \A s \in DOMAIN solutions : Replay(solutions[s]) = s
    /\ ~is_none(solutions, 0) /\ solutions[0] = <<>>
    /\ [][/\ ~is_none(solutions', 0) /\ solutions'[0] = <<>>
          /\ \A s \in DOMAIN solutions' :
                (is_none(solutions, s) \/ solutions'[s] # solutions[s])
                    => Replay(solutions'[s]) = s]_vars

\* the entry of 1088 has been written: SpiderEye, then a wart
C3_Witness ==
    /\ pc = "for"
    /\ Len(queue) = 3
    /\ ~is_none(solutions, 1088)
    /\ solutions[1088] = <<"SpiderEye", "AddNetherWart">>
    /\ Replay(<<"SpiderEye", "AddNetherWart">>) = 1088

\* the canonical order of the actions
CanonicalOrder ==
    <<"Sugar", "GhastTear", "SpiderEye", "FermentedSpiderEye",
      "BlazePowder", "MagmaCream", "Dilute", "AddNetherWart">>

Rank(a) == CHOOSE k \in 1..Len(CanonicalOrder) : CanonicalOrder[k] = a

\* p is before or equal to q in lexicographic order (p, q of one length)
RECURSIVE LexLeqFrom(_, _, _)
LexLeqFrom(p, q, k) ==
    IF k > Len(p) THEN TRUE
    ELSE IF Rank(p[k]) < Rank(q[k]) THEN TRUE
    ELSE IF Rank(p[k]) > Rank(q[k]) THEN FALSE
    ELSE LexLeqFrom(p, q, k + 1)

LexLeq(p, q) == LexLeqFrom(p, q, 1)

\* the length up to which every sequence of actions is tried
MaxSeqLen == 4

ActionSequences == UNION {[1..n -> Action] : n \in 0..MaxSeqLen}

\* C4: when the search has finished, the recorded path of a state is the
\* first in lexicographic order (canonical order of the actions) among the
\* minimal sequences that lead to it: no sequence of up to MaxSeqLen actions
\* of the same length comes before it, and, over the whole table (already at
\* the end of every round), the path of a state comes no later than the path
\* of any predecessor one level up followed by the action that leads from it.
C4_TieBreaking ==
    /\ Searched =>
          \A q \in ActionSequences :
              LET s == Replay(q) IN
              /\ ~is_none(solutions, s)
              /\ Len(solutions[s]) = Len(q) => LexLeq(solutions[s], q)
    /\ RoundEnd =>
          \A t \in DOMAIN solutions : \A a \in Action :
              LET s == apply_to(a, t) IN
              (/\ ~is_none(solutions, s)
               /\ Len(solutions[s]) = Len(solutions[t]) + 1)
                  => LexLeq(solutions[s], Append(solutions[t], a))

\* 18080 has two minimal sequences; the one with SpiderEye first is recorded
C4_Witness ==
    /\ Searched
    /\ Replay(<<"FermentedSpiderEye", "SpiderEye">>) = 18080
    /\ ~is_none(solutions, 18080)
    /\ solutions[18080] = <<"SpiderEye", "FermentedSpiderEye">>

\* the elements a step pushed onto the back of next_queue
Pushed(old, new) ==
    IF Len(new) >= Len(old) /\ SubSeq(new, 1, Len(old)) = old
    THEN SubSeq(new, Len(old) + 1, Len(new))
    ELSE <<>>

\* C12: the table is write-once: the entry of state 0 is the empty path from
\* the start, no step of the search removes or changes an entry that is set,
\* and the states a step pushes onto the next frontier are exactly the states
\* whose entries that step writes, each pushed once (so a state is queued at
\* most once in the whole run).
C12_WriteOnce ==
    /\ 0 \in DOMAIN solutions /\ solutions[0] = <<>>
    /\ [][/\ \A s \in DOMAIN solutions :
                s \in DOMAIN solutions' /\ solutions'[s] = solutions[s]
          /\ LET written == DOMAIN solutions' \ DOMAIN solutions
                 pushed == Pushed(next_queue, next_queue')
             IN  /\ {pushed[k][2] : k \in DOMAIN pushed} = written
                 /\ Len(pushed) = Cardinality(written)]_vars

\* zero has been expanded: Dilute led from 0 back to 0, six states were
\* written and queued, and the entry of 0 is still the empty path
C12_Witness ==
    /\ pc = "assign"
    /\ rounds = 0
    /\ apply_to("Dilute", 0) = 0
    /\ solutions[0] = <<>>
    /\ Cardinality(DOMAIN solutions) = 7
    /\ Len(next_queue) = 6

\* C13: the while loop of main always ends: every round writes at least one
\* new entry or leaves an empty next frontier, so the rounds completed never
\* outnumber the entries set, of which there are at most 32768; and with an
\* empty queue the loop is left.
C13_SolverTerminates ==
    /\ rounds = 0
    /\ [][/\ (pc = "while" /\ queue # <<>>)
               => /\ rounds' = rounds + 1
                  /\ \/ Cardinality(DOMAIN solutions') > Cardinality(DOMAIN solutions)
                     \/ queue' = <<>>
          /\ (pc = "while" /\ queue = <<>>) => pc' = "write"
          /\ rounds' <= Cardinality(DOMAIN solutions')
          /\ Cardinality(DOMAIN solutions') <= StateCount]_vars

\* the loop has been left after its last round, which wrote nothing
C13_Witness ==
    /\ pc = "write"
    /\ queue = <<>>
    /\ rounds = 26
    /\ Cardinality(DOMAIN solutions) = 5624

-----------------------------------------------------------------------------
(* Properties of the transitions, over every cauldron state *)

\* C5: every action maps a state of 0..32767 to a state of 0..32767 (bit 15
\* is never set), so every state a sequence of actions reaches is an index of
\* the 32768-entry table.
C5_FifteenBitClosure == ld \in LiquidStates

\* a nether wart that takes the shift branch of stage 1 with the top bit at 14
C5_Witness == prev = 16385 /\ act = "AddNetherWart" /\ ld = 24578

\* C7: the end-to-end values of the library's tests, step by step.
Scenario ==
    << <<0, "Dilute", 0>>,
       <<0, "FermentedSpiderEye", 16896>>,
       <<16896, "Dilute", 16384>>,
       <<0, "SpiderEye", 1184>>,
       <<1184, "AddNetherWart", 1088>>,
       <<1184, "FermentedSpiderEye", 18080>>,
       <<18080, "BlazePowder", 18080>>,
       <<18080, "MagmaCream", 18146>>,
       <<18146, "Sugar", 18147>>,
       <<18147, "AddNetherWart", 20614>>,
       <<20614, "Dilute", 20484>>,
       <<20484, "Sugar", 20485>> >>

\* C7: from zero, dilute gives 0, FermentedSpiderEye then gives 16896 and
\* dilute 16384; SpiderEye gives 1184 and a wart then 1088; SpiderEye,
\* FermentedSpiderEye, BlazePowder, MagmaCream, Sugar and a wart give 20614,
\* dilute then 20484 and Sugar 20485.
C7_EndToEnd ==
    \A k \in 1..Len(Scenario) :
        (prev = Scenario[k][1] /\ act = Scenario[k][2]) => ld = Scenario[k][3]

C7_Witness == prev = 18147 /\ act = "AddNetherWart" /\ ld = 20614

\* the table of the claim: the bits each ingredient sets
IngredientMask(i) ==
    CASE i = "Sugar"              -> {0}
      [] i = "GhastTear"          -> {11}
      [] i = "SpiderEye"          -> {5, 7, 10}
      [] i = "FermentedSpiderEye" -> {9, 14}
      [] i = "BlazePowder"        -> {14}
      [] i = "MagmaCream"         -> {1, 6, 14}

\* C8: apply_ingredient(s, i) is s with the bits of i's mask set: a bit of
\* the result is set exactly when it is set in s or belongs to the mask, so
\* no bit of s is cleared.
C8_IngredientOnlySetsBits ==
    act \in PotionIngredient =>
        \A b \in 0..(U16Bits - 1) :
            Bit(ld, b) <=> (Bit(prev, b) \/ b \in IngredientMask(act))

\* MagmaCream added to a state that has bit 6 already and lacks bits 1 and 14
C8_Witness == prev = 1088 /\ act = "MagmaCream" /\ ld = 17474

\* C9: applying the same ingredient a second time changes nothing.
C9_IngredientIdempotent ==
    (rep = 2 /\ act \in PotionIngredient) => ld = prev

\* SpiderEye applied twice in a row, the first time to plain water
C9_Witness == rep = 2 /\ act = "SpiderEye" /\ prev = 1184 /\ ld = 1184

DilutedBits == {1, 3, 5, 7, 9, 11, 13}

\* C10: dilute(s) has bits 1,3,5,7,9,11,13 clear and every other bit equal to
\* the same bit of s; it sets no bit.
C10_DiluteFrame ==
    act = "Dilute" =>
        \A b \in 0..(U16Bits - 1) :
            /\ b \in DilutedBits => ~Bit(ld, b)
            /\ b \notin DilutedBits => (Bit(ld, b) <=> Bit(prev, b))
            /\ Bit(ld, b) => Bit(prev, b)

\* every bit set before, the even ones left after
C10_Witness == prev = 32767 /\ act = "Dilute" /\ ld = 21845

\* C11: dilute is idempotent: diluting a second time in a row leaves the
\* liquid data as the first dilution left it, for every state of 0..32767.
C11_DiluteIdempotent == (rep = 2 /\ act = "Dilute") => ld = prev

\* 32767 diluted to 21845, and diluted again
C11_Witness ==
    /\ rep = 2
    /\ act = "Dilute"
    /\ prev = 21845
    /\ ld = 21845

-----------------------------------------------------------------------------
(* apply_automaton, one generation per step, on every state of 0..32767 *)

\* the most generations the model lets one loop compute
MaxGenerations == 14

AutomatonInit ==
    /\ self \in LiquidStates
    /\ next = FungalAutomaton_new(without_leading_bits(self))
    /\ current = FungalDefault
    /\ result = 0
    /\ gen = 0
    /\ apc = "loop"
    /\ IdleCauldron
    /\ IdleSolver
    /\ IdleUnit

\* while current != next { current = next; next = next.next(); }
Generation ==
    /\ apc = "loop"
    /\ current # next
    /\ gen < MaxGenerations
    /\ current' = next
    /\ next' = FungalAutomaton_next(next)
    /\ gen' = gen + 1
    /\ UNCHANGED <<self, result, apc, cauldronVars, solverVars, unitVars>>

\* the loop is left: current.into(), and the removed bit is added back
Evolved ==
    /\ apc = "loop"
    /\ current = next
    /\ result' = add_leading_bit(first_set(self), FungalAutomaton_into(current))
    /\ apc' = "done"
    /\ UNCHANGED <<self, current, next, gen, cauldronVars, solverVars, unitVars>>

AutomatonNext == Generation \/ Evolved

AutomatonSpec == AutomatonInit /\ [][AutomatonNext]_vars

\* C6: for every state of 0..32767 given to apply_automaton the loop over
\* FungalAutomaton::next() ends: the generations reach one that equals its
\* successor (no cycle of a longer period), so a loop that has computed
\* MaxGenerations generations has nothing left to compute.
C6_AutomatonConverges ==
    (apc = "loop" /\ gen = MaxGenerations) => current = next

\* the longest loop: cells 0..13 set, eaten from both ends until cell 14 alone is set
C6_Witness ==
    /\ apc = "done"
    /\ self = 32767
    /\ gen = MaxGenerations
    /\ current = FungalAutomaton_new(16384)
    /\ result = 16384

-----------------------------------------------------------------------------
(* One call of one function of the two crates, on any u16 value below 2^15 *)
(* or on any path of up to MaxPathLen actions.                              *)

\* the longest path handed to format_actions
MaxPathLen == 3

PathInputs == UNION {[1..n -> Action] : n \in 0..MaxPathLen}

UnitInit ==
    /\ \/ input \in LiquidStates /\ input_path = <<>>
       \/ input = 0 /\ input_path \in PathInputs
    /\ called = "none"
    /\ output = <<>>
    /\ IdleCauldron
    /\ IdleAutomaton
    /\ IdleSolver

\* what a call leaves alone: its arguments (taken by value or by shared
\* reference) and everything else
Returns(name, value) ==
    /\ called' = name
    /\ output' = value
    /\ UNCHANGED <<input, input_path, cauldronVars, autoVars, solverVars>>

\* format_actions(&actions)
CallFormatActions ==
    /\ called = "none"
    /\ Returns("format_actions", format_actions(input_path))

\* FungalAutomaton::new(input).next()
CallNext ==
    /\ called = "none"
    /\ Returns("next", FungalAutomaton_next(FungalAutomaton_new(input)))

\* LiquidData(input).apply_wart_stage_1()
CallStage1 ==
    /\ called = "none"
    /\ Returns("apply_wart_stage_1", apply_wart_stage_1(input))

\* FungalAutomaton::new(input)
CallNew ==
    /\ called = "none"
    /\ Returns("new", FungalAutomaton_new(input))

\* .. .into(), on the automaton new returned
CallInto ==
    /\ called = "new"
    /\ Returns("into", FungalAutomaton_into(output))

\* math::first_set(input)
CallFirstSet ==
    /\ called = "none"
    /\ Returns("first_set", first_set(input))

\* LiquidData(input).apply_wart(), with the values it computes on the way
CallApplyWart ==
    /\ called = "none"
    /\ LET stage_1 == apply_wart_stage_1(input)
           residual == without_leading_bits(stage_1)
           evolved == FungalAutomaton_into(
                          automaton_loop(FungalDefault, FungalAutomaton_new(residual)))
       IN  Returns("apply_wart",
                   [stage_1 |-> stage_1,
                    first_set |-> first_set(stage_1),
                    without_leading_bits |-> residual,
                    evolved |-> evolved,
                    result |-> apply_wart(input)])

\* The variant crate cauldron-brewing: the cells are indexed by usize.

UsizeBits == 64

\* 2^n modulo m
RECURSIVE PowMod2(_, _)
PowMod2(n, m) == IF n = 0 THEN 1 % m ELSE (2 * PowMod2(n - 1, m)) % m

\* WrappingArr::index of the variant: index % I
VariantIndex(index) == index % Cells

\* the cell read by self[i - k]: i - k on usize overflows below zero, which
\* panics in a build with overflow checks and wraps to 2^64 + i - k in a build
\* without (reduced here modulo 15 as index % I then does)
VariantCellBelow(c, i, k, overflow_checks) ==
    IF i >= k THEN [panicked |-> FALSE, value |-> c[VariantIndex(i - k)]]
    ELSE IF overflow_checks THEN [panicked |-> TRUE, value |-> FALSE]
    ELSE [panicked |-> FALSE,
          value |-> c[(PowMod2(UsizeBits, Cells) + Cells + i - k) % Cells]]

\* should_set for cell i, with || and && evaluated left to right
VariantShouldSet(c, i, overflow_checks) ==
    LET below1 == VariantCellBelow(c, i, 1, overflow_checks)
        below2 == VariantCellBelow(c, i, 2, overflow_checks)
    IN  IF c[VariantIndex(i)]
        THEN IF ~(c[VariantIndex(i + 1)] \/ ~c[VariantIndex(i + 2)])
             THEN [panicked |-> FALSE, value |-> FALSE]
             ELSE IF below1.panicked THEN below1
             ELSE IF below1.value THEN [panicked |-> FALSE, value |-> TRUE]
             ELSE IF below2.panicked THEN below2
             ELSE [panicked |-> FALSE, value |-> ~below2.value]
        ELSE IF below1.panicked THEN below1
             ELSE IF ~below1.value THEN [panicked |-> FALSE, value |-> FALSE]
             ELSE [panicked |-> FALSE, value |-> c[VariantIndex(i + 1)]]

\* FungalAutomaton::next of the variant
VariantNext(c, overflow_checks) ==
    LET cells == [i \in 0..(Cells - 1) |-> VariantShouldSet(c, i, overflow_checks)]
    IN  IF \E i \in 0..(Cells - 1) : cells[i].panicked
        THEN [panicked |-> TRUE, next_gen |-> FungalDefault]
        ELSE [panicked |-> FALSE, next_gen |-> [i \in 0..(Cells - 1) |-> cells[i].value]]

\* next() of the variant on the configuration whose cells are the bits of
\* input, in a build with or without overflow checks
CallVariantNext ==
    /\ called = "none"
    /\ \E overflow_checks \in BOOLEAN :
          Returns("variant_next",
                  [overflow_checks |-> overflow_checks] @@
                  VariantNext([i \in 0..(Cells - 1) |-> Bit(input, i)], overflow_checks))

\* A u32 of the variant, as its two 16-bit halves [hi, lo].

\* the leading one bits of a 16-bit half, counted from bit i down
RECURSIVE leading_ones_from(_, _)
leading_ones_from(h, i) ==
    IF i < 0 THEN 0
    ELSE IF Bit(h, i) THEN 1 + leading_ones_from(h, i - 1) ELSE 0

\* u32::leading_ones
leading_ones(v) ==
    LET high == leading_ones_from(v.hi, U16Bits - 1)
    IN  IF high = U16Bits THEN U16Bits + leading_ones_from(v.lo, U16Bits - 1)
        ELSE high

\* Mutant: 32 for 31
first_clear_from_32(v) == 32 - leading_ones(v)

\* math::first_clear of the variant
first_clear(v) == 31 - leading_ones(v)

\* the u32 values made of the 15 bits n: below sixteen ones (with bit 15
\* clear or set), above sixteen zeros or sixteen ones (with bit 31 clear or
\* set), and in both halves
U32Inputs(n) ==
    {[hi |-> U16 - 1, lo |-> n], [hi |-> U16 - 1, lo |-> n + StateCount],
     [hi |-> n, lo |-> 0], [hi |-> n + StateCount, lo |-> 0],
     [hi |-> n, lo |-> U16 - 1], [hi |-> n + StateCount, lo |-> U16 - 1],
     [hi |-> n + StateCount, lo |-> n]}

\* math::first_clear(v)
CallFirstClear ==
    /\ called = "none"
    /\ \E v \in U32Inputs(input) :
          Returns("first_clear", [v |-> v, result |-> first_clear(v)])

UnitNext ==
    \/ CallFirstClear
    \/ CallVariantNext
    \/ CallFormatActions
    \/ CallNext
    \/ CallStage1
    \/ CallNew
    \/ CallInto
    \/ CallFirstSet
    \/ CallApplyWart

UnitSpec == UnitInit /\ [][UnitNext]_vars

\* the code table of the rendering
Code ==
    [a \in Action |->
        CASE a = "Sugar" -> "S" [] a = "GhastTear" -> "G" [] a = "SpiderEye" -> "E"
          [] a = "FermentedSpiderEye" -> "F" [] a = "BlazePowder" -> "B"
          [] a = "MagmaCream" -> "C" [] a = "Dilute" -> "W" [] a = "AddNetherWart" -> "N"]

\* the path a rendered string stands for: character by character, an action
\* that has that code
Decode(text) ==
    [k \in 1..Len(text) |-> CHOOSE a \in Action : ActionCode(a) = text[k]]

\* C14: format_actions renders a path as the codes of its actions in order:
\* the rendering is as long as the path, its k-th character is the code of
\* the k-th action, the 8 codes are pairwise distinct, and no two different
\* paths render to the same string: the path is recovered from its rendering.
C14_PathRendering ==
    called = "format_actions" =>
        /\ Len(output) = Len(input_path)
        /\ \A k \in 1..Len(input_path) : output[k] = Code[input_path[k]]
        /\ \A a, b \in Action : a # b => ActionCode(a) # ActionCode(b)
        /\ Decode(output) = input_path

\* Sugar, SpiderEye, AddNetherWart was rendered as S, E, N
C14_Witness ==
    /\ called = "format_actions"
    /\ input_path = <<"Sugar", "SpiderEye", "AddNetherWart">>
    /\ output = <<"S", "E", "N">>

\* the neighbours of cell i on the ring of 15 cells
Left1(i)  == IF i = 0 THEN 14 ELSE i - 1
Left2(i)  == IF i = 0 THEN 13 ELSE IF i = 1 THEN 14 ELSE i - 2
Right1(i) == IF i = 14 THEN 0 ELSE i + 1
Right2(i) == IF i = 13 THEN 0 ELSE IF i = 14 THEN 1 ELSE i + 2

\* the rule of the automaton for cell i of the configuration whose cell j is
\* bit j of v
Rule(v, i) ==
    IF Bit(v, i)
    THEN (Bit(v, Right1(i)) \/ ~Bit(v, Right2(i))) /\ (Bit(v, Left1(i)) \/ ~Bit(v, Left2(i)))
    ELSE Bit(v, Left1(i)) /\ Bit(v, Right1(i))

\* C15: for every configuration of 15 cells, next() gives for every cell the
\* value of the rule with the neighbours taken on the ring (cell 14 left of
\* cell 0, cell 0 right of cell 14), and leaves its receiver as it was.
C15_AutomatonRule ==
    [][called' = "next" =>
          /\ input' = input
          /\ DOMAIN output' = 0..14
          /\ \A i \in 0..14 : output'[i] = Rule(input, i)]_vars

\* cells 0 and 13 set: cell 14, between them around the ring, becomes set,
\* and both lose their cell (each has a clear neighbour whose neighbour is set)
C15_Witness ==
    /\ called = "next"
    /\ input = 8193
    /\ output = [i \in 0..14 |-> i = 14]

\* the position of the highest set bit of v >= 1
Top(v) == CHOOSE p \in 0..15 : 2^p <= v /\ v < 2^(p + 1)

RECURSIVE FixedPointFrom(_)
FixedPointFrom(c) ==
    IF FungalAutomaton_next(c) = c THEN c
    ELSE FixedPointFrom(FungalAutomaton_next(c))

\* C17: apply_automaton returns a true fixed point: with P the highest set
\* bit of s and r = s without bit P (r = s = 0 when s = 0), the result is the
\* first generation from r on that equals its successor, with bit P set again
\* (nothing set for s = 0); and whenever the loop stops, at the all-false
\* default included, the generation it stops at equals its own successor.
C17_TrueFixedPoint ==
    /\ (apc = "loop" /\ current = next) => FungalAutomaton_next(current) = current
    /\ apc = "done" =>
          LET r  == IF self = 0 THEN 0 ELSE self - 2^Top(self)
              gk == FixedPointFrom([i \in 0..14 |-> Bit(r, i)])
          IN  /\ current = gk
              /\ result \in LiquidStates
              /\ \A i \in 0..14 :
                     Bit(result, i) <=> (gk[i] \/ (self # 0 /\ i = Top(self)))

\* 1101: the residual 101 evolves to 010 in two generations, which is stable;
\* with the top bit the result is 1010
C17_Witness ==
    /\ apc = "done"
    /\ self = 13
    /\ gen = 2
    /\ current = [i \in 0..14 |-> i = 1]
    /\ result = 10

\* C18: the conversion loses nothing: for every v of 0..32767 cell i of
\* FungalAutomaton::new(v) is set exactly when bit i of v is, and into() of
\* that automaton is v again.
C18_LosslessConversion ==
    /\ called = "new" =>
          /\ DOMAIN output = 0..14
          /\ \A i \in 0..14 : output[i] <=> Bit(input, i)
    /\ called = "into" => output = input

\* 21845 (the even bits) went to cells and back
C18_Witness ==
    /\ called = "into"
    /\ input = 21845
    /\ output = 21845

\* C19: first_set(v) is the position of the highest set bit of v for every v
\* of 1..32767 and -1 for 0; on 0 stage 1 returns 0, stage 2 takes no bit away
\* (the residual is 0), evolves it to 0 and adds no bit back: apply_wart(0) = 0.
C19_ZeroEdgeCase ==
    /\ called = "first_set" =>
          IF input = 0 THEN output = -1 ELSE output = Top(input)
    /\ (called = "apply_wart" /\ input = 0) =>
          /\ output.stage_1 = 0
          /\ output.first_set = -1
          /\ output.without_leading_bits = 0
          /\ output.evolved = 0
          /\ output.result = 0

\* the wart was applied to zero
C19_Witness ==
    /\ called = "apply_wart"
    /\ input = 0
    /\ output.first_set = -1
    /\ output.result = 0

\* C20: in the variant indexed by usize, next() gives for every configuration
\* the generation of the rule with the neighbours taken on the ring, and
\* reading the neighbours below cells 0 and 1 does not fail.
C20_VariantRule ==
    called = "variant_next" =>
        /\ ~output.panicked
        /\ \A i \in 0..14 : output.next_gen[i] = Rule(input, i)

\* C21: the wart keeps the highest set bit where it is: for every state s
\* of 1..32767 the highest set bit of apply_wart(s) is at the position of the
\* highest set bit of s, and no bit above that position is changed.
C21_WartKeepsTopBit ==
    (act = "AddNetherWart" /\ prev # 0) =>
        /\ ld # 0
        /\ Top(ld) = Top(prev)
        /\ \A i \in 0..15 : i > Top(prev) => (Bit(ld, i) <=> Bit(prev, i))

\* 1001 becomes 1110 under the wart: stage 1 shifts and sets bits 2 and 3,
\* the automaton leaves cells 1 and 2 as they are
C21_Witness ==
    /\ act = "AddNetherWart"
    /\ prev = 9
    /\ ld = 14
    /\ Top(9) = 3

\* C22: bit 14 is permanent: from a state with bit 14 set no ingredient, no
\* dilution and no wart leads to a state with bit 14 clear, so in a sequence
\* of actions from zero (or from any state) it stays set once it is set.
C22_Bit14Permanent == [][Bit(ld, 14) => Bit(ld', 14)]_vars

\* bit 14 alone, as BlazePowder sets it from zero, was diluted and is still set
C22_Witness ==
    /\ act = "Dilute"
    /\ rep = 1
    /\ prev = 16384
    /\ Bit(ld, 14)

\* the queue at the start of round k: every pair holds a path of k actions
\* that leads from zero to the pair's state and is that state's entry, and
\* no state is queued twice
LevelQueue(table, q, k) ==
    /\ \A n \in 1..Len(q) :
          /\ Len(q[n][1]) = k
          /\ Replay(q[n][1]) = q[n][2]
          /\ q[n][2] \in DOMAIN table
          /\ table[q[n][2]] = q[n][1]
    /\ Cardinality({q[n][2] : n \in 1..Len(q)}) = Len(q)

\* C23: the frontier is level-synchronized: at the start of round k (k = 0
\* for the initial queue) the queue is a level queue for k, and every entry
\* written during round k is a path of k + 1 actions.
C23_LevelSynchronized ==
    /\ LevelQueue(solutions, queue, 0)
    /\ [][/\ pc' = "while" => LevelQueue(solutions', queue', rounds')
          /\ \A s \in DOMAIN solutions' \ DOMAIN solutions :
                Len(solutions'[s]) = rounds + 1]_vars

\* round 2 is about to start with the 16 states at distance 2 in the queue
C23_Witness ==
    /\ pc = "while"
    /\ rounds = 2
    /\ Len(queue) = 16
    /\ \A n \in 1..Len(queue) : Len(queue[n][1]) = 2

\* the index (0..31) of the highest clear bit of a u32, -1 when all are set
HighestClear(v) ==
    IF v.hi # U16 - 1 THEN 16 + Top((U16 - 1) - v.hi)
    ELSE IF v.lo # U16 - 1 THEN Top((U16 - 1) - v.lo)
    ELSE -1

\* C24: in the variant, first_clear(v) is 31 minus the count of leading one
\* bits of v, which is the index of the highest clear bit of v, and -1 when
\* no bit of v is clear; it is 31 for 0, 14 for 0xffff_8000 and -1 for
\* 0xffff_ffff.
C24_FirstClear ==
    called = "first_clear" =>
        /\ output.result = HighestClear(output.v)
        /\ output.v = [hi |-> 0, lo |-> 0] => output.result = 31
        /\ output.v = [hi |-> 65535, lo |-> 32768] => output.result = 14
        /\ output.v = [hi |-> 65535, lo |-> 65535] => output.result = -1

\* first_clear(0xffff_8000) returned 14
C24_Witness ==
    /\ called = "first_clear"
    /\ output.v = [hi |-> 65535, lo |-> 32768]
    /\ output.result = 14

====
